---- MODULE Spec2Model ----
(***************************************************************************)
(* A model of the XPS <Glyphs> element handler of mupdf (xps_parse_glyphs  *)
(* and its helpers): font lookup and loading with the font cache, font     *)
(* deobfuscation, cmap selection, the Indices mini-language decoder and    *)
(* the glyph layout arithmetic.                                            *)
(*                                                                         *)
(* C strings are sequences of character codes (ASCII / UTF-8 bytes); the   *)
(* terminating NUL is the end of the sequence.  A NULL pointer is a        *)
(* separate flag next to the string.                                       *)
(*                                                                         *)
(* Lengths on the page are kept in units of 1/200 so that the products     *)
(* advance * 0.01 * size and hadv * 0.5 * size are integers: font metrics  *)
(* (hadv, vadv, vorg) are held in hundredths of an em, sizes and the real  *)
(* numbers of the Indices string are integers.  Rounding of C floats is    *)
(* not modelled.                                                           *)
(***************************************************************************)
EXTENDS Integers, Sequences, FiniteSets, Bags, TLC

VARIABLES
    \* ---- rendering context: xps_parse_glyphs ------------------------------
    doc,          \* the document: its parts and the FontUri values of its Glyphs
    font_table,   \* ctx->font_table, a bag of [name, font] entries
    loaded,       \* a bag: per font path, how often fz_newfontfrombuffer succeeded
    last,         \* what the last xps_parse_glyphs call did
    \* ---- xps_parse_glyphs_imp ---------------------------------------------
    run,          \* the arguments of the call
    is,           \* char *is   (rest of the Indices string)
    us,           \* char *us   (rest of the UnicodeString, UTF-8 bytes)
    un,           \* int un     (bytes left in us)
    x,            \* float x    (the pen)
    text,         \* ctx->text  (the glyphs fz_addtext appended)
    gl,           \* per glyph of text, the locals it was laid out with
    char_code,    \* int char_code
    glyph_count,  \* int glyph_count (rounds of the glyph loop still to run)
    head,         \* strlen(is) + un when the current round of the outer loop began
    pc,           \* position in xps_parse_glyphs_imp
    \* ---- xps_parse_real_num -----------------------------------------------
    rin,          \* char *s    (the argument)
    rout,         \* the result and the extent of the writes to buf
    \* ---- xps_deobfuscate_font_resource --------------------------------------
    dpart,        \* xps_part: name, data, size
    dorig,        \* the bytes of the part as fetched
    dtimes        \* how often the part was passed to the function

fontVars  == <<doc, font_table, loaded, last>>
glyphVars == <<run, is, us, un, x, text, gl, char_code, glyph_count, head, pc>>
realVars  == <<rin, rout>>
deobVars  == <<dpart, dorig, dtimes>>
vars == <<doc, font_table, loaded, last, run, is, us, un, x, text, gl, char_code,
          glyph_count, head, pc, rin, rout, dpart, dorig, dtimes>>

----------------------------------------------------------------------------
(* Characters *)

Digits == <<"0", "1", "2", "3", "4", "5", "6", "7", "8", "9">>
Lower  == <<"a", "b", "c", "d", "e", "f", "g", "h", "i", "j", "k", "l", "m",
            "n", "o", "p", "q", "r", "s", "t", "u", "v", "w", "x", "y", "z">>
Upper  == <<"A", "B", "C", "D", "E", "F", "G", "H", "I", "J", "K", "L", "M",
            "N", "O", "P", "Q", "R", "S", "T", "U", "V", "W", "X", "Y", "Z">>
Punct  == [c \in {"/", ".", "-", "#", "(", ")", ":", ",", ";", "+", "{", "}", "_"} |->
             CASE c = "/" -> 47 [] c = "." -> 46 [] c = "-" -> 45 [] c = "#" -> 35
               [] c = "(" -> 40 [] c = ")" -> 41 [] c = ":" -> 58 [] c = "," -> 44
               [] c = ";" -> 59 [] c = "+" -> 43 [] c = "{" -> 123 [] c = "}" -> 125
               [] c = "_" -> 95]

\* The character code of a one-character string.
Asc(c) ==
    IF \E i \in 1..10 : Digits[i] = c THEN 47 + (CHOOSE i \in 1..10 : Digits[i] = c)
    ELSE IF \E i \in 1..26 : Lower[i] = c THEN 96 + (CHOOSE i \in 1..26 : Lower[i] = c)
    ELSE IF \E i \in 1..26 : Upper[i] = c THEN 64 + (CHOOSE i \in 1..26 : Upper[i] = c)
    ELSE Punct[c]

\* A C string from its characters.
Str(cs) == [i \in 1..Len(cs) |-> Asc(cs[i])]

isdigit(i)  == i \in 48..57
isxdigit(i) == i \in 48..57 \/ i \in 97..102 \/ i \in 65..70
tolower(i)  == IF i \in 65..90 THEN i + 32 ELSE i

unhex(i) == IF isdigit(i) THEN i - 48 ELSE tolower(i) - 97 + 10

\* a ^ b on bytes
RECURSIVE BitXor(_, _)
BitXor(a, b) ==
    IF a = 0 THEN b
    ELSE IF b = 0 THEN a
    ELSE ((a + b) % 2) + 2 * BitXor(a \div 2, b \div 2)

\* strrchr(s, c): the index of the last c in s, 0 when there is none
RECURSIVE LastBefore(_, _, _)
LastBefore(s, c, i) ==
    IF i = 0 THEN 0 ELSE IF s[i] = c THEN i ELSE LastBefore(s, c, i - 1)

strrchr(s, c) == LastBefore(s, c, Len(s))

\* strstr(s, t) != NULL
strstr(s, t) ==
    \E i \in 0..(Len(s) - Len(t)) : \A j \in 1..Len(t) : s[i + j] = t[j]

----------------------------------------------------------------------------
(* xps_deobfuscate_font_resource *)

GuidDigits == 32
KeyBytes == 16

\* The scan of lines 29-33: from position p, collect hexadecimal digits into
\* buf until 32 are collected or the name ends.
RECURSIVE ScanGuid(_, _, _)
ScanGuid(name, p, buf) ==
    IF Len(buf) < GuidDigits /\ p <= Len(name)
    THEN ScanGuid(name, p + 1, IF isxdigit(name[p]) THEN Append(buf, name[p]) ELSE buf)
    ELSE buf

\* key[i], i in 0..15 (line 43); a byte
GuidKey(buf) ==
    [i \in 0..(KeyBytes - 1) |-> (unhex(buf[i*2 + 1]) * 16 + unhex(buf[i*2 + 2])) % 256]

KeyIndex_same(i) == i

\* the key byte used for data[i] and data[i+16] (lines 47-48)
KeyIndex(i) == (KeyBytes - 1) - i

\* data[j] ^= k, j a 0-based index; a write at or past the end of the
\* allocation leaves the part's bytes as they are
XorAt(data, j, k) ==
    IF j < Len(data) THEN [data EXCEPT ![j + 1] = BitXor(data[j + 1], k)] ELSE data

\* The loop of lines 45-49, from i on.
RECURSIVE XorLoop(_, _, _)
XorLoop(data, key, i) ==
    IF i < KeyBytes
    THEN XorLoop(XorAt(XorAt(data, i, key[KeyIndex(i)]), i + KeyBytes, key[KeyIndex(i)]),
                 key, i + 1)
    ELSE data

\* The whole function on a part: the new bytes, whether it warned, and the
\* (0-based) indices of part->data it read and wrote.
xps_deobfuscate_font_resource(part) ==
    LET slash == strrchr(part.name, 47)
        p     == IF slash = 0 THEN 1 ELSE slash
        buf   == ScanGuid(part.name, p, <<>>)
    IN  IF Len(buf) # GuidDigits
        THEN [data |-> part.data, warned |-> TRUE, accessed |-> {}]
        ELSE [data |-> XorLoop(part.data, GuidKey(buf), 0),
              warned |-> FALSE,
              accessed |-> 0..(2 * KeyBytes - 1)]

----------------------------------------------------------------------------
(* The Indices mini-language: the scanners of lines 108-168 *)

BufSize == 64

\* Each scanner takes the string from the cursor on and returns the rest
\* of it with the values it stored through its pointer arguments.

\* xps_parse_digits; value is *digit
RECURSIVE ParseDigitsFrom(_, _)
ParseDigitsFrom(s, digit) ==
    IF s # <<>> /\ Head(s) >= 48 /\ Head(s) <= 57
    THEN ParseDigitsFrom(Tail(s), digit * 10 + (Head(s) - 48))
    ELSE [s |-> s, value |-> digit]

xps_parse_digits(s) == ParseDigitsFrom(s, 0)

is_real_num_char(c) ==
    (c >= 48 /\ c <= 57) \/ c = 101 \/ c = 69 \/ c = 43 \/ c = 45 \/ c = 46

\* The number of leading characters of s that the loop of lines 130-131
\* copies into buf.
RECURSIVE RealNumRun(_)
RealNumRun(s) ==
    IF s # <<>> /\ is_real_num_char(Head(s)) THEN 1 + RealNumRun(Tail(s)) ELSE 0

\* atof on a string of real-number characters: an optional sign and the
\* decimal digits that follow it (the strings of this model carry no
\* fraction and no exponent).
atof(buf) ==
    LET signed == buf # <<>> /\ (buf[1] = 43 \/ buf[1] = 45)
        body   == IF signed THEN Tail(buf) ELSE buf
        v      == xps_parse_digits(body).value
    IN  IF signed /\ buf[1] = 45 THEN 0 - v ELSE v

\* xps_parse_real_num(s, &number): written counts the chars stored into
\* buf, the terminating zero included; number is left alone when buf is
\* empty.
xps_parse_real_num(s, number) ==
    LET n   == RealNumRun(s)
        buf == SubSeq(s, 1, n)
    IN  [s       |-> SubSeq(s, n + 1, Len(s)),
         written |-> n + 1,
         number  |-> IF n > 0 THEN atof(buf) ELSE number]

\* xps_parse_cluster_mapping(s, &code_count, &glyph_count)
xps_parse_cluster_mapping(s, cc, gc) ==
    LET a  == IF s # <<>> /\ Head(s) = 40
              THEN xps_parse_digits(Tail(s))
              ELSE [s |-> s, value |-> cc]
        b  == IF a.s # <<>> /\ Head(a.s) = 58
              THEN xps_parse_digits(Tail(a.s))
              ELSE [s |-> a.s, value |-> gc]
        s3 == IF b.s # <<>> /\ Head(b.s) = 41 THEN Tail(b.s) ELSE b.s
    IN  [s |-> s3, code_count |-> a.value, glyph_count |-> b.value]

\* xps_parse_glyph_index(s, &glyph_index)
xps_parse_glyph_index(s, glyph_index) ==
    IF s # <<>> /\ Head(s) >= 48 /\ Head(s) <= 57
    THEN LET d == xps_parse_digits(s) IN [s |-> d.s, glyph_index |-> d.value]
    ELSE [s |-> s, glyph_index |-> glyph_index]

\* xps_parse_glyph_metrics(s, &advance, &uofs, &vofs), one "if" at a
\* time: a, b are the results of the scans before.  explicit records
\* whether a number was stored into advance.
MetricsVofs(a, b, vofs) ==
    LET c == IF b.s # <<>> /\ Head(b.s) = 44
             THEN xps_parse_real_num(Tail(b.s), vofs)
             ELSE [s |-> b.s, written |-> 0, number |-> vofs]
    IN  [s |-> c.s, advance |-> a.number, uofs |-> b.number, vofs |-> c.number,
         explicit |-> a.written > 1]

MetricsUofs(a, uofs, vofs) ==
    MetricsVofs(a,
                IF a.s # <<>> /\ Head(a.s) = 44
                THEN xps_parse_real_num(Tail(a.s), uofs)
                ELSE [s |-> a.s, written |-> 0, number |-> uofs],
                vofs)

xps_parse_glyph_metrics(s, advance, uofs, vofs) ==
    MetricsUofs(IF s # <<>> /\ Head(s) = 44
                THEN xps_parse_real_num(Tail(s), advance)
                ELSE [s |-> s, written |-> 0, number |-> advance],
                uofs, vofs)

----------------------------------------------------------------------------
(* The states of the parts of the program a specification does not run *)

NoCall == [op |-> "none"]

FontIdle ==
    /\ doc = NoCall
    /\ font_table = EmptyBag
    /\ loaded = EmptyBag
    /\ last = NoCall

GlyphIdle ==
    /\ run = NoCall
    /\ is = <<>>
    /\ us = <<>>
    /\ un = 0
    /\ x = 0
    /\ text = <<>>
    /\ gl = <<>>
    /\ char_code = 0
    /\ glyph_count = 0
    /\ head = 0
    /\ pc = "none"

RealIdle ==
    /\ rin = <<>>
    /\ rout = NoCall

DeobIdle ==
    /\ dpart = NoCall
    /\ dorig = <<>>
    /\ dtimes = 0

----------------------------------------------------------------------------
(* xps_parse_real_num on its own: every length of the run of real-number  *)
(* characters up to MaxRealRun                                            *)

MaxRealRun == 66

Zeros(n) == [i \in 1..n |-> 48]

\* what follows the zeros: nothing, a digit, the next number, a stray
\* character, the end of the glyph mapping, a sign
RealTails == {<<>>, Str(<<"7">>), Str(<<",", "5">>), Str(<<"x">>), Str(<<";">>),
              Str(<<"-", "3">>)}

RealInputs == {Zeros(n) \o t : n \in 0..MaxRealRun, t \in RealTails}
                 \cup {Str(<<"-">>) \o Zeros(n) \o Str(<<"4", "2">>) : n \in 0..2}

InitReal ==
    /\ rin \in RealInputs
    /\ rout = NoCall
    /\ FontIdle /\ GlyphIdle /\ DeobIdle

\* One call xps_parse_real_num(rin, &number), number holding 0 before.  A
\* store past buf[63] is undefined: the call may still return, or the
\* process may die.
ParseRealNum ==
    /\ rout = NoCall
    /\ LET r == xps_parse_real_num(rin, 0)
       IN  \/ rout' = [op |-> "returned", s |-> r.s, written |-> r.written,
                       number |-> r.number]
           \/ /\ r.written > BufSize
              /\ rout' = [op |-> "crashed", s |-> rin, written |-> r.written,
                          number |-> 0]
    /\ UNCHANGED <<rin, fontVars, glyphVars, deobVars>>

NextReal == ParseRealNum

SpecReal == InitReal /\ [][NextReal]_vars

----------------------------------------------------------------------------
(* xps_deobfuscate_font_resource on its own *)

MaxApply == 2

HexPool == Str(<<"0", "1", "2", "3", "4", "5", "6", "7", "8", "9", "a", "b", "c", "d",
                 "e", "f", "F", "E", "D", "C", "B", "A", "9", "8", "7", "6", "5", "4",
                 "3", "2", "1", "0", "a", "B", "c", "D", "e", "F", "0", "1">>)

HexRun(n) == SubSeq(HexPool, 1, n)

\* 8-4-4-4-12, as the packages write the GUID
Guid == SubSeq(HexPool, 1, 8) \o Str(<<"-">>) \o SubSeq(HexPool, 9, 12) \o Str(<<"-">>)
          \o SubSeq(HexPool, 13, 16) \o Str(<<"-">>) \o SubSeq(HexPool, 17, 20)
          \o Str(<<"-">>) \o SubSeq(HexPool, 21, 32)

ExtLower == Str(<<".", "o", "d", "t", "t", "f">>)
ExtUpper == Str(<<".", "O", "D", "T", "T", "F">>)
ExtMixed == Str(<<".", "O", "d", "t", "t", "f">>)
ExtTtf   == Str(<<".", "t", "t", "f">>)
Slash    == Str(<<"/">>)

DeobNames ==
    { Slash \o Str(<<"R">>) \o Slash \o Guid \o ExtLower,     \* a proper name
      Guid \o ExtUpper,                                       \* no '/' at all
      Slash \o HexRun(31) \o ExtLower,                        \* 31 digits, then 'd'
      Slash \o HexRun(30) \o ExtLower,                        \* 30 digits, 'd', 'f'
      Slash \o HexRun(29) \o ExtLower,                        \* 31 in all
      Slash \o HexRun(29) \o ExtTtf,                          \* 30 in all
      Slash \o HexRun(32) \o Slash \o Str(<<"x">>) \o ExtLower, \* digits in the directory
      Slash \o HexRun(40) \o ExtTtf,                          \* more than 32
      Slash \o Str(<<"x">>) \o ExtTtf }

DataSizes == {GuidDigits, GuidDigits + 1, GuidDigits + 8}

\* bytes i*a + b
DeobData ==
    {[i \in 1..n |-> ((i - 1) * ab[1] + ab[2]) % 256] :
        n \in DataSizes, ab \in {<<0, 0>>, <<7, 3>>, <<0, 255>>, <<85, 170>>}}

InitDeob ==
    /\ dpart \in {[name |-> n, data |-> d, size |-> Len(d)] : n \in DeobNames, d \in DeobData}
    /\ dorig = dpart.data
    /\ dtimes = 0
    /\ FontIdle /\ GlyphIdle /\ RealIdle

Deobfuscate ==
    /\ dtimes < MaxApply
    /\ dpart' = [dpart EXCEPT !.data = xps_deobfuscate_font_resource(dpart).data]
    /\ dtimes' = dtimes + 1
    /\ UNCHANGED <<dorig, fontVars, glyphVars, realVars>>

NextDeob == Deobfuscate

SpecDeob == InitDeob /\ [][NextDeob]_vars

----------------------------------------------------------------------------
(* xps_parse_glyphs_imp *)

MaxIndLen == 3
MaxText == 4

\* UTF-8 of a string of code points below 0x800
RECURSIVE Utf8(_)
Utf8(cps) ==
    IF cps = <<>> THEN <<>>
    ELSE LET c == Head(cps)
         IN  (IF c < 128 THEN <<c>> ELSE <<192 + (c \div 64), 128 + (c % 64)>>)
                \o Utf8(Tail(cps))

\* xps_utf8_to_ucs(&char_code, us, un): the code point at the head of us
\* and the number of bytes it takes
xps_utf8_to_ucs(s, n) ==
    IF s[1] < 128 THEN [code |-> s[1], t |-> 1]
    ELSE [code |-> (s[1] % 32) * 64 + (s[2] % 64), t |-> 2]

\* Fonts: the cmap of the selected encoding and the metrics of each glyph,
\* in hundredths of an em.
FontMono == [name |-> "mono", hadv0 |-> 50, hstep |-> 0, vadv0 |-> 100, vorg0 |-> 25]
FontProp == [name |-> "prop", hadv0 |-> 30, hstep |-> 10, vadv0 |-> 90, vorg0 |-> 20]

\* xps_encode_font_char(font, char_code); 0 is .notdef
xps_encode_font_char(font, code) ==
    IF code \in 32..126 THEN code - 29
    ELSE IF code = 233 THEN 139
    ELSE 0

\* xps_measure_font_glyph(ctx, font, glyph_index, &mtx)
xps_measure_font_glyph(font, gid) ==
    [hadv |-> font.hadv0 + font.hstep * (gid % 4),
     vadv |-> font.vadv0 + font.hstep * (gid % 3),
     vorg |-> font.vorg0 + font.hstep * (gid % 2)]

\* v * 0.01 * size for v in hundredths, in units of 1/200
Scale(v, size) == v * size * 2

DerivedAdvance_noflip(is_sideways, bidi_level, mtx) ==
    IF is_sideways THEN mtx.vadv ELSE mtx.hadv

\* lines 249-254: advance = mtx.vadv * 100.0 etc., in hundredths
DerivedAdvance(is_sideways, bidi_level, mtx) ==
    IF is_sideways THEN mtx.vadv
    ELSE IF bidi_level % 2 = 1 THEN 0 - mtx.hadv
    ELSE mtx.hadv

\* lines 196-197: if (us[0] == '{' && us[1] == '}') us = us + 2
StripBraces(unicode) ==
    IF Len(unicode) >= 2 /\ unicode[1] = 123 /\ unicode[2] = 125
    THEN SubSeq(unicode, 3, Len(unicode))
    ELSE unicode

\* lines 226-233: while (code_count--) ...; once us is used up the
\* remaining rounds do nothing
RECURSIVE CodeLoop(_, _)
CodeLoop(code_count, st) ==
    IF code_count = 0 \/ ~(run.has_unicode /\ st.un > 0) THEN st
    ELSE LET d == xps_utf8_to_ucs(st.us, st.un)
         IN  CodeLoop(code_count - 1,
                      [us |-> SubSeq(st.us, d.t + 1, Len(st.us)), un |-> st.un - d.t,
                       char_code |-> d.code])

PenAfter_noadvance(px, advance, size) == px

\* line 282: x += advance * 0.01 * size
PenAfter(px, advance, size) == px + Scale(advance, size)

\* The glyph loop's body, lines 237-282, in the order of the code; each
\* operator takes the locals set so far.  st is the cursor, the pen and the
\* text before the round.

\* lines 263-282: mirror and scale the offsets, place the glyph, move the pen
GlyphPlace(st, code, gid, mtx, gm, is2) ==
    LET upre == IF run.bidi_level % 2 = 1 THEN (0 - mtx.hadv) - gm.uofs ELSE gm.uofs
        v    == Scale(gm.vofs, run.size)
    IN  [is   |-> is2,
         x    |-> PenAfter(st.x, gm.advance, run.size),
         text |-> Append(st.text,
                    [gid |-> gid, ucs |-> code,
                     x |-> IF run.is_sideways
                           THEN st.x + Scale(upre, run.size) + Scale(mtx.vorg, run.size)
                           ELSE st.x + Scale(upre, run.size),
                     y |-> IF run.is_sideways
                           THEN run.originy - v + mtx.hadv * run.size
                           ELSE run.originy - v]),
         gl   |-> Append(st.gl, [advance |-> gm.advance, explicit |-> gm.explicit,
                                 u_orig |-> gm.uofs, u_pre |-> upre, mtx |-> mtx])]

\* lines 259-260: if (*is == ';') is++, inside the "if (is && *is)" of line 256
GlyphSemicolon(st, code, gid, mtx, s, gm) ==
    GlyphPlace(st, code, gid, mtx, gm,
               IF run.has_indices /\ s # <<>> /\ gm.s # <<>> /\ Head(gm.s) = 59
               THEN Tail(gm.s) ELSE gm.s)

\* lines 256-258: the metrics of the Indices string, over the defaults
GlyphMetrics(st, code, gid, mtx, s, adv0) ==
    GlyphSemicolon(st, code, gid, mtx, s,
                   IF run.has_indices /\ s # <<>>
                   THEN xps_parse_glyph_metrics(s, adv0, 0, 0)
                   ELSE [s |-> s, advance |-> adv0, uofs |-> 0, vofs |-> 0,
                         explicit |-> FALSE])

\* lines 248-254
GlyphMeasure(st, code, gid, s, mtx) ==
    GlyphMetrics(st, code, gid, mtx, s,
                 DerivedAdvance(run.is_sideways, run.bidi_level, mtx))

\* lines 245-246
GlyphEncode(st, code, gi) ==
    GlyphMeasure(st, code,
                 IF gi.glyph_index = -1 THEN xps_encode_font_char(run.font, code)
                 ELSE gi.glyph_index,
                 gi.s,
                 xps_measure_font_glyph(run.font,
                     IF gi.glyph_index = -1 THEN xps_encode_font_char(run.font, code)
                     ELSE gi.glyph_index))

\* lines 237-243, then the rest
GlyphStep(st, code) ==
    GlyphEncode(st, code,
                IF run.has_indices /\ st.is # <<>>
                THEN xps_parse_glyph_index(st.is, -1)
                ELSE [s |-> st.is, glyph_index |-> -1])

\* lines 219-222: if (code_count < 1) code_count = 1; (and glyph_count)
Clamp(n) == IF n < 1 THEN 1 ELSE n

IndexChars == Str(<<"2", "(", ":", ")", ",", ";", "x">>)

IndicesInputs ==
    UNION {[1..k -> {IndexChars[i] : i \in 1..Len(IndexChars)}] : k \in 0..MaxIndLen}

\* UnicodeString attributes, as code points: A, B, e-acute, '{', '}'
UnicodeInputs ==
    {<<>>, <<65>>, <<65, 66>>, <<66, 233, 65>>, <<123, 125>>, <<123, 125, 65, 66>>,
     <<125, 123, 65>>, <<233>>}

\* the UnicodeStrings of the runs that also carry Indices
UnicodeWithIndices == {<<65, 66>>, <<233>>}

Layouts ==
    {[font |-> FontMono, size |-> 10, originx |-> 0, originy |-> 0],
     [font |-> FontProp, size |-> 12, originx |-> 600, originy |-> 800]}

\* The arguments of one call.  An absent attribute is a NULL pointer.
ImpCall(l, sw, b, hi, ind, hu, cps) ==
    [op |-> "imp", font |-> l.font, size |-> l.size, originx |-> l.originx,
     originy |-> l.originy, is_sideways |-> sw, bidi_level |-> b,
     has_indices |-> hi, indices |-> ind,
     has_unicode |-> hu, codepoints |-> cps, unicode |-> Utf8(cps)]

InitGlyphs ==
    /\ \E l \in Layouts, sw \in BOOLEAN, b \in {0, 1, 2} :
         \/ \E ind \in IndicesInputs, cps \in UnicodeWithIndices :
                run = ImpCall(l, sw, b, TRUE, ind, TRUE, cps)
         \/ \E ind \in IndicesInputs : run = ImpCall(l, sw, b, TRUE, ind, FALSE, <<>>)
         \/ \E cps \in UnicodeInputs : run = ImpCall(l, sw, b, FALSE, <<>>, TRUE, cps)
         \/ run = ImpCall(l, sw, b, FALSE, <<>>, FALSE, <<>>)
    /\ is = <<>>
    /\ us = <<>>
    /\ un = 0
    /\ x = 0
    /\ text = <<>>
    /\ gl = <<>>
    /\ char_code = 0
    /\ glyph_count = 0
    /\ head = 0
    /\ pc = "start"
    /\ FontIdle /\ RealIdle /\ DeobIdle

\* lines 182-206: the locals are set up, or the call returns at once
ImpEnter ==
    /\ pc = "start"
    /\ IF ~run.has_unicode /\ ~run.has_indices
       THEN /\ pc' = "done"
            /\ UNCHANGED <<is, us, un, x>>
       ELSE /\ pc' = "loop"
            /\ is' = run.indices
            /\ us' = IF run.has_unicode THEN StripBraces(run.unicode) ELSE <<>>
            /\ un' = Len(us')
            /\ x' = run.originx
    /\ UNCHANGED <<run, text, gl, char_code, glyph_count, head, fontVars, realVars,
                   deobVars>>

LoopCondition == (run.has_unicode /\ un > 0) \/ (run.has_indices /\ is # <<>>)

\* lines 208-233: a round of the outer loop begins: the cluster mapping
\* and the code points of the cluster
ImpCluster ==
    /\ pc = "loop"
    /\ LoopCondition
    /\ LET cm == IF run.has_indices /\ is # <<>>
                 THEN xps_parse_cluster_mapping(is, 1, 1)
                 ELSE [s |-> is, code_count |-> 1, glyph_count |-> 1]
           cl == CodeLoop(Clamp(cm.code_count), [us |-> us, un |-> un, char_code |-> 63])
       IN  /\ is' = cm.s
           /\ us' = cl.us
           /\ un' = cl.un
           /\ char_code' = cl.char_code
           /\ glyph_count' = Clamp(cm.glyph_count)
    /\ head' = Len(is) + un
    /\ pc' = "glyph"
    /\ UNCHANGED <<run, x, text, gl, fontVars, realVars, deobVars>>

\* lines 235-283: one round of the glyph loop
ImpGlyph ==
    /\ pc = "glyph"
    /\ glyph_count > 0
    /\ Len(text) < MaxText
    /\ LET g == GlyphStep([is |-> is, x |-> x, text |-> text, gl |-> gl], char_code)
       IN  /\ is' = g.is
           /\ x' = g.x
           /\ text' = g.text
           /\ gl' = g.gl
    /\ glyph_count' = glyph_count - 1
    /\ UNCHANGED <<run, us, un, char_code, head, pc, fontVars, realVars, deobVars>>

\* line 235 false: back to line 208
ImpRoundDone ==
    /\ pc = "glyph"
    /\ glyph_count = 0
    /\ pc' = "loop"
    /\ UNCHANGED <<run, is, us, un, x, text, gl, char_code, glyph_count, head, fontVars,
                   realVars, deobVars>>

\* line 208 false: the function returns
ImpExit ==
    /\ pc = "loop"
    /\ ~LoopCondition
    /\ pc' = "done"
    /\ UNCHANGED <<run, is, us, un, x, text, gl, char_code, glyph_count, head, fontVars,
                   realVars, deobVars>>

NextGlyphs == ImpEnter \/ ImpCluster \/ ImpGlyph \/ ImpRoundDone \/ ImpExit

SpecGlyphs == InitGlyphs /\ [][NextGlyphs]_vars

----------------------------------------------------------------------------
(* xps_select_best_font_encoding *)

MaxEncs == 2

\* { pid, eid } up to the { -1, -1 } that ends the list
xps_cmap_list ==
    <<<<3, 10>>, <<3, 1>>, <<3, 5>>, <<3, 4>>, <<3, 3>>, <<3, 2>>, <<3, 0>>, <<1, 0>>>>

\* the first i in 0..n-1 whose subtable is pair, lines 74-82
FirstSubtable(encs, pair) ==
    (CHOOSE i \in 1..Len(encs) : encs[i] = pair /\ \A j \in 1..(i - 1) : encs[j] # pair) - 1

\* the loop over k of lines 72-83, from k on: the index handed to
\* xps_select_font_encoding, or -1 when the loop ends and the function warns
RECURSIVE SelectFrom(_, _)
SelectFrom(encs, k) ==
    IF k > Len(xps_cmap_list) THEN -1
    ELSE IF \E i \in 1..Len(encs) : encs[i] = xps_cmap_list[k]
    THEN FirstSubtable(encs, xps_cmap_list[k])
    ELSE SelectFrom(encs, k + 1)

\* subtables outside, priorities inside: the first subtable that is listed
xps_select_first_listed(encs) ==
    IF \E i \in 1..Len(encs) : \E k \in 1..Len(xps_cmap_list) : encs[i] = xps_cmap_list[k]
    THEN (CHOOSE i \in 1..Len(encs) :
            /\ \E k \in 1..Len(xps_cmap_list) : encs[i] = xps_cmap_list[k]
            /\ \A j \in 1..(i - 1) :
                  \A k \in 1..Len(xps_cmap_list) : encs[j] # xps_cmap_list[k]) - 1
    ELSE -1

\* encs: the subtables xps_identify_font_encoding reports, by index
xps_select_best_font_encoding(encs) == SelectFrom(encs, 1)

----------------------------------------------------------------------------
(* xps_parse_glyphs *)

\* xps_absolute_path(partname, base_uri, font_uri_att, sizeof partname)
xps_absolute_path(base_uri, uri) ==
    IF uri # <<>> /\ uri[1] = 47 THEN uri ELSE base_uri \o uri

atoi(s) == atof(s)

\* lines 393-399: the name without the text after the last '#', and the
\* number that text gives
PartName(path) ==
    LET subfont == strrchr(path, 35)
    IN  IF subfont = 0 THEN path ELSE SubSeq(path, 1, subfont - 1)

SubFontId(path) ==
    LET subfont == strrchr(path, 35)
    IN  IF subfont = 0 THEN 0 ELSE atoi(SubSeq(path, subfont + 1, Len(path)))

\* xps_hash_lookup(ctx->font_table, partname)
xps_hash_lookup(table, name) ==
    IF \E e \in BagToSet(table) : e.name = name
    THEN [found |-> TRUE, font |-> (CHOOSE e \in BagToSet(table) : e.name = name).font]
    ELSE [found |-> FALSE, font |-> NoCall]

\* xps_hash_insert(ctx, ctx->font_table, name, font)
xps_hash_insert(table, name, font) ==
    table (+) SetToBag({[name |-> name, font |-> font]})

\* xps_read_part(ctx, partname): a copy of the part of that name
xps_read_part(ps, name) ==
    IF \E q \in ps : q.name = name
    THEN [found |-> TRUE, part |-> CHOOSE q \in ps : q.name = name]
    ELSE [found |-> FALSE, part |-> NoCall]

LoadIsNeeded_always(found) == TRUE

\* line 402: if (!font)
LoadIsNeeded(found) == ~found

\* lines 411-414: the part after the two "deobfuscate if necessary" tests
\* and how often the function ran; n, w, a: the runs, warnings and accesses
\* so far
DeobUpper(part, n, w, a) ==
    IF strstr(part.name, ExtUpper)
    THEN LET r == xps_deobfuscate_font_resource(part)
         IN  [data |-> r.data, times |-> n + 1, warned |-> w \/ r.warned,
              accessed |-> a \cup r.accessed]
    ELSE [data |-> part.data, times |-> n, warned |-> w, accessed |-> a]

DeobLower(part) ==
    IF strstr(part.name, ExtLower)
    THEN LET r == xps_deobfuscate_font_resource(part)
         IN  DeobUpper([part EXCEPT !.data = r.data], 1, r.warned, r.accessed)
    ELSE DeobUpper(part, 0, FALSE, {})

\* What a call did to the font cache.
Resolution(status, part, d, parsed, font, inserted) ==
    [status   |-> status,      \* hit, no-part, crashed, parse-error, loaded
     fetched  |-> part # NoCall,
     name     |-> IF part # NoCall THEN part.name ELSE <<>>,
     size     |-> IF part # NoCall THEN part.size ELSE 0,
     deobf    |-> d.times,
     warned   |-> d.warned,
     accessed |-> d.accessed,
     parsed   |-> parsed,
     font     |-> font,
     inserted |-> inserted]

NoDeob == [data |-> <<>>, times |-> 0, warned |-> FALSE, accessed |-> {}]

\* lines 416-428 for a part that was read and passed the deobfuscation
\* tests; ok is the verdict of fz_newfontfrombuffer
ParseAndInsert(part, d, subfontid, ok) ==
    IF ~ok THEN Resolution("parse-error", part, d, TRUE, NoCall, FALSE)
    ELSE Resolution("loaded", part, d, TRUE,
                    [encs     |-> part.encs,
                     selected |-> xps_select_best_font_encoding(part.encs),
                     subfont  |-> subfontid],
                    TRUE)

\* The drawing of lines 435-506 for an element whose font was found:
\* the calls that reach the device.
Drawing(elem) ==
    [clips     |-> IF elem.clip THEN 1 ELSE 0,
     filltexts |-> IF elem.fill \in {"att", "solid"} THEN 1 ELSE 0,
     brushes   |-> IF elem.fill = "brush" THEN 1 ELSE 0,
     imps      |-> IF elem.fill = "none" THEN 0 ELSE 1,
     popclips  |-> IF elem.clip THEN 1 ELSE 0]

NoDrawing == [clips |-> 0, filltexts |-> 0, brushes |-> 0, imps |-> 0, popclips |-> 0]

Required == {"FontRenderingEmSize", "FontUri", "OriginX", "OriginY"}

\* Glyphs elements: the attributes present, the kind of fill (none, a Fill
\* attribute, a SolidColorBrush child, another brush child), a clip
Elements ==
    {[atts |-> Required \cup {"UnicodeString"}, fill |-> "att", clip |-> FALSE],
     [atts |-> Required \cup {"Indices"}, fill |-> "brush", clip |-> TRUE],
     [atts |-> Required \cup {"Indices", "UnicodeString"}, fill |-> "solid", clip |-> TRUE],
     [atts |-> Required \cup {"UnicodeString"}, fill |-> "none", clip |-> FALSE],
     [atts |-> Required, fill |-> "att", clip |-> TRUE]}
      \cup {[atts |-> (Required \ {a}) \cup {"UnicodeString"}, fill |-> "att", clip |-> TRUE] :
              a \in Required}

\* the encoding subtables a font may hold: the listed ones and one other
Subtables == {xps_cmap_list[k] : k \in 1..Len(xps_cmap_list)} \cup {<<0, 3>>}

EncLists == UNION {[1..n -> Subtables] : n \in 0..MaxEncs}

Bytes(n) == [i \in 1..n |-> (i * 7) % 256]

FontPart(name, n, encs) == [name |-> name, data |-> Bytes(n), size |-> n, encs |-> encs]

PlainName == Str(<<"/", "f", ".", "t", "t", "f">>)

ObfuscatedName == Slash \o Str(<<"R">>) \o Slash \o Guid \o ExtLower
MixedCaseName  == Slash \o Guid \o ExtMixed
ShortGuidName  == Slash \o HexRun(29) \o ExtLower
TenBytesName   == Slash \o Guid \o ExtLower
BothCasesName  == Slash \o Str(<<"a">>) \o ExtLower \o Slash \o Guid \o ExtUpper

\* A package with a plain font and an obfuscated one, and a document that
\* names them in several ways and names a font that is not there.
Package ==
    [parts |->
       {FontPart(PlainName, 40, <<<<1, 0>>, <<3, 1>>>>),
        FontPart(ObfuscatedName, 40, <<<<3, 1>>>>)},
     uris |->
       {PlainName, PlainName \o Str(<<"#", "1">>), PlainName \o Str(<<"#", "0", "2">>),
        Str(<<"f", ".", "t", "t", "f">>), PlainName \o Str(<<"#", "b">>),
        Slash \o Str(<<"n", "o", "n", "e">>) \o ExtTtf,
        ObfuscatedName}]

\* A package of obfuscated fonts: the extension in mixed case, a GUID that is
\* too short, a font of 10 bytes, the extension in both cases.
OddPackage ==
    [parts |->
       {FontPart(MixedCaseName, 40, <<<<3, 0>>, <<3, 10>>>>),
        FontPart(ShortGuidName, 40, <<<<0, 3>>>>),
        FontPart(TenBytesName, 10, <<<<3, 1>>>>),
        FontPart(BothCasesName, 40, <<<<1, 0>>>>)},
     uris |-> {MixedCaseName, ShortGuidName, TenBytesName, BothCasesName}]

\* A package with one font holding the subtables encs.
OneFont(encs) ==
    [parts |-> {FontPart(PlainName, 40, encs)},
     uris  |-> {PlainName, PlainName \o Str(<<"#", "1">>)}]

InitFont ==
    /\ \/ doc = Package
       \/ doc = OddPackage
       \/ \E encs \in EncLists : doc = OneFont(encs)
    /\ font_table = EmptyBag
    /\ loaded = EmptyBag
    /\ last = NoCall
    /\ GlyphIdle /\ RealIdle /\ DeobIdle

\* What the call did, as the record last.
CallRecord(elem, uri, returned, res, drawing) ==
    [op |-> "glyphs", elem |-> elem, uri |-> uri, returned |-> returned, res |-> res,
     drawing |-> drawing]

NoResolution == Resolution("none", NoCall, NoDeob, FALSE, NoCall, FALSE)

\* lines 401-414: the lookup and, after a miss, the part read and passed
\* through the deobfuscation tests
Fetch(path) ==
    LET hit == xps_hash_lookup(font_table, PartName(path))
        rp  == IF LoadIsNeeded(hit.found) THEN xps_read_part(doc.parts, PartName(path))
               ELSE [found |-> FALSE, part |-> NoCall]
    IN  [hit |-> hit, rp |-> rp, d |-> IF rp.found THEN DeobLower(rp.part) ELSE NoDeob]

\* lines 401-429: the resolution of a font, f being what was fetched and ok
\* the verdict of the font parser.  A store past the end of part->data is
\* undefined: the call may go on (oob = "continue") or the process may die
\* ("crash").
Resolve(f, subfontid, ok, oob) ==
    IF ~LoadIsNeeded(f.hit.found)
    THEN Resolution("hit", NoCall, NoDeob, FALSE, f.hit.font, FALSE)
    ELSE IF ~f.rp.found THEN Resolution("no-part", NoCall, NoDeob, FALSE, NoCall, FALSE)
    ELSE IF oob = "crash" THEN Resolution("crashed", f.rp.part, f.d, FALSE, NoCall, FALSE)
    ELSE ParseAndInsert(f.rp.part, f.d, subfontid, ok)

\* the outcomes of the stores to part->data
OobOutcomes(f) ==
    IF f.rp.found /\ \E i \in f.d.accessed : i >= f.rp.part.size
    THEN {"continue", "crash"} ELSE {"continue"}

\* the verdicts the font parser can give
ParserVerdicts(f, oob) == IF f.rp.found /\ oob = "continue" THEN BOOLEAN ELSE {TRUE}

\* whether lines 375-381 let the call go on
CanDraw(elem) ==
    /\ Required \subseteq elem.atts
    /\ "Indices" \in elem.atts \/ "UnicodeString" \in elem.atts

\* One call of xps_parse_glyphs.  The calls of xps_parse_glyphs_imp are
\* counted here and modelled in SpecGlyphs.
XpsParseGlyphs ==
    /\ IF last = NoCall THEN TRUE ELSE last.returned   \* the process is alive
    /\ \/ \* lines 375-381: an attribute is missing, or there is nothing to draw
          \E elem \in Elements :
             /\ ~CanDraw(elem)
             /\ last' = CallRecord(elem, <<>>, TRUE, NoResolution, NoDrawing)
             /\ UNCHANGED <<font_table, loaded>>
       \/ \* lines 383-506
          \E uri \in doc.uris :
            \E path \in {xps_absolute_path(Slash, uri)} : \E f \in {Fetch(path)} :
                \E oob \in OobOutcomes(f) : \E ok \in ParserVerdicts(f, oob) :
                  \E res \in {Resolve(f, SubFontId(path), ok, oob)} :
                      \E elem \in Elements :
                        /\ CanDraw(elem)
                        /\ last' = CallRecord(elem, uri, res.status # "crashed", res,
                                              IF res.status \in {"hit", "loaded"}
                                              THEN Drawing(elem) ELSE NoDrawing)
                        /\ font_table' = IF res.inserted
                                         THEN xps_hash_insert(font_table, f.rp.part.name,
                                                              res.font)
                                         ELSE font_table
                        /\ loaded' = IF res.status = "loaded"
                                     THEN loaded (+) SetToBag({path}) ELSE loaded
    /\ UNCHANGED <<doc, glyphVars, realVars, deobVars>>

NextFont == XpsParseGlyphs

SpecFont == InitFont /\ [][NextFont]_vars

----------------------------------------------------------------------------
(* Claims about the two functions *)

\* C3: parsing a real number never stores more than the 64 chars of buf,
\* the terminating zero included.
C3_ScratchBounded == rout # NoCall => rout.written <= BufSize

\* The transform as the format defines it, from the name and the bytes.
RefHexChars == Str(<<"0", "1", "2", "3", "4", "5", "6", "7", "8", "9", "a", "b", "c",
                     "d", "e", "f", "A", "B", "C", "D", "E", "F">>)
RefHexValue(c) == LET i == CHOOSE k \in 1..22 : RefHexChars[k] = c
                  IN  IF i <= 16 THEN i - 1 ELSE i - 7
RefIsHex(c) == \E k \in 1..22 : RefHexChars[k] = c
RefSegment(name) ==
    LET cut == IF \E i \in 1..Len(name) : name[i] = 47
               THEN CHOOSE i \in 1..Len(name) :
                        name[i] = 47 /\ \A j \in 1..Len(name) : name[j] = 47 => j <= i
               ELSE 0
    IN  SubSeq(name, cut + 1, Len(name))
RefDigits(name) == SelectSeq(RefSegment(name), RefIsHex)
RefKeyByte(name, k) ==
    16 * RefHexValue(RefDigits(name)[2*k + 1]) + RefHexValue(RefDigits(name)[2*k + 2])
RefTransform(name, data) ==
    IF Len(RefDigits(name)) < 32 THEN data
    ELSE [i \in 1..Len(data) |->
            IF i <= 32 THEN BitXor(data[i], RefKeyByte(name, 15 - ((i - 1) % 16)))
            ELSE data[i]]

\* C7: on a resource of at least 32 bytes the function is the reference
\* transform (key from the first 32 hex digits of the final path segment,
\* byte i and byte i+16 XORed with key byte 15-i, nothing changed when there
\* are fewer than 32 digits), and applying it twice restores the bytes.
C7_DeobfuscateIsReference ==
    /\ dtimes % 2 = 1 => dpart.data = RefTransform(dpart.name, dorig)
    /\ (dtimes > 0 /\ dtimes % 2 = 0) => dpart.data = dorig
    /\ (dtimes > 0 /\ Len(RefDigits(dpart.name)) < 32) => dpart.data = dorig

C7_Witness ==
    /\ dtimes = 2
    /\ dpart.data = dorig
    /\ RefTransform(dpart.name, dorig) # dorig
    /\ \E i \in 1..Len(dpart.name) : dpart.name[i] \in 65..70

----------------------------------------------------------------------------
(* Claims about xps_parse_glyphs_imp *)

\* C2: every round of the outer decoding loop strictly shortens what is
\* left of the Indices string or of the UnicodeString, whatever characters
\* the Indices string holds, so the loop ends.
C2_RoundShortensInput ==
    (pc = "glyph" /\ glyph_count = 0) => Len(is) + un < head

\* A run of code points only, laid out left to right and upright.
C5Case ==
    /\ pc = "done"
    /\ run.has_unicode
    /\ ~run.has_indices
    /\ ~run.is_sideways
    /\ run.bidi_level % 2 = 0

\* The glyphs of the code points cps with the pen at penx: one per code
\* point, each at the pen, the pen moving by hadv*100*size/100.
RECURSIVE C5Glyphs(_, _)
C5Glyphs(cps, penx) ==
    IF cps = <<>> THEN <<>>
    ELSE LET gid == xps_encode_font_char(run.font, Head(cps))
             adv == xps_measure_font_glyph(run.font, gid).hadv * run.size * 2
         IN  <<[gid |-> gid, ucs |-> Head(cps), x |-> penx, y |-> run.originy]>>
                \o C5Glyphs(Tail(cps), penx + adv)

\* The code points a UnicodeString stands for: a leading "{}" is an
\* escape and not part of the text.
C5Literal(cps) ==
    IF Len(cps) >= 2 /\ cps[1] = 123 /\ cps[2] = 125 THEN SubSeq(cps, 3, Len(cps))
    ELSE cps

\* C5 as stated: a UnicodeString of n code points, no Indices, not sideways,
\* even bidi level, gives exactly n glyphs, the k-th for the k-th code point,
\* at the origin plus the advances of the glyphs before it.
C5_OneGlyphPerCodePoint ==
    C5Case => text = C5Glyphs(run.codepoints, run.originx)

\* C5 amended: the same for the code points that follow a leading "{}"
\* escape, which gives no glyphs itself.
C5_OneGlyphPerLiteralCodePoint ==
    C5Case => text = C5Glyphs(C5Literal(run.codepoints), run.originx)

\* 'AB', hadv 0.5, size 10, origin (0,0): glyphs at x = 0 and x = 5
C5_Witness ==
    /\ C5Case
    /\ run.codepoints = <<65, 66>>
    /\ run.font = FontMono /\ run.size = 10 /\ run.originx = 0 /\ run.originy = 0
    /\ text = <<[gid |-> 36, ucs |-> 65, x |-> 0, y |-> 0],
                [gid |-> 37, ucs |-> 66, x |-> 1000, y |-> 0]>>

\* the glyphs laid out with an advance from the font's metrics in a
\* right-to-left run
C6Glyphs == {k \in 1..Len(gl) : ~gl[k].explicit /\ run.bidi_level % 2 = 1}

\* C6 as stated: with an odd bidi level the advance is the negation of the
\* advance of an even level (vadv*100 sideways, hadv*100 otherwise), for
\* either value of is_sideways, and the offset before scaling is
\* -hadv*100 - u_offset.
C6_AdvanceNegatedEitherWay ==
    \A k \in C6Glyphs :
        /\ gl[k].advance = 0 - (IF run.is_sideways THEN gl[k].mtx.vadv ELSE gl[k].mtx.hadv)
        /\ gl[k].u_pre = (0 - gl[k].mtx.hadv) - gl[k].u_orig

\* C6 amended: the advance is negated when is_sideways is false; a sideways
\* glyph advances by vadv*100 at every bidi level.  The offset is mirrored
\* in both cases.
C6_AdvanceNegatedUpright ==
    \A k \in C6Glyphs :
        /\ ~run.is_sideways => gl[k].advance = 0 - gl[k].mtx.hadv
        /\ run.is_sideways => gl[k].advance = gl[k].mtx.vadv
        /\ gl[k].u_pre = (0 - gl[k].mtx.hadv) - gl[k].u_orig

C6_Witness ==
    /\ pc = "done"
    /\ \E k \in C6Glyphs :
          /\ run.is_sideways
          /\ gl[k].u_orig # 0
          /\ gl[k].advance = gl[k].mtx.vadv
          /\ gl[k].mtx.vadv > 0
    /\ \E k \in C6Glyphs : gl[k].u_orig = 0

----------------------------------------------------------------------------
(* Claims about xps_parse_glyphs *)

\* The canonical name of a font path: the path without a sub-font suffix
\* '#' digits at its end.
RECURSIVE C1Digits(_, _)
C1Digits(path, i) ==
    IF i >= 1 /\ path[i] \in 48..57 THEN C1Digits(path, i - 1) ELSE i

C1Canonical(path) ==
    LET i == C1Digits(path, Len(path))
    IN  IF i >= 1 /\ i < Len(path) /\ path[i] = 35 THEN SubSeq(path, 1, i - 1) ELSE path

C1Path(uri) == IF uri # <<>> /\ uri[1] = 47 THEN uri ELSE <<47>> \o uri

\* no canonical name was parsed successfully twice
C1ParsedOnce ==
    \A q1 \in BagToSet(loaded) :
        /\ CopiesIn(q1, loaded) = 1
        /\ \A q2 \in BagToSet(loaded) : C1Canonical(q1) = C1Canonical(q2) => q1 = q2

\* no name has two entries in the font table
C1OneEntry ==
    \A e1 \in BagToSet(font_table) :
        /\ CopiesIn(e1, font_table) = 1
        /\ \A e2 \in BagToSet(font_table) : e1.name = e2.name => e1 = e2

\* a call that resolves a name the table holds returns the cached handle
\* and neither fetches the part nor runs the parser nor changes the table
C1CachedIsReturned ==
    (last' # NoCall /\ last'.res.status # "none") =>
        \A e \in BagToSet(font_table) :
            e.name = C1Canonical(C1Path(last'.uri)) =>
                /\ last'.res.status = "hit"
                /\ last'.res.font = e.font
                /\ ~last'.res.fetched
                /\ ~last'.res.parsed
                /\ font_table' = font_table
                /\ loaded' = loaded

\* C1: the font parser succeeds at most once per canonical part name, a
\* name that is in the font table is resolved from the table without
\* fetching or parsing, and the table never holds two entries for a name.
C1_AtMostOnceLoad ==
    [](C1ParsedOnce /\ C1OneEntry) /\ [][C1CachedIsReturned]_vars

C1_Witness ==
    /\ last # NoCall
    /\ last.uri = PlainName \o Str(<<"#", "1">>)
    /\ last.res.status = "hit"
    /\ last.res.font.subfont = 2
    /\ BagCardinality(font_table) = 2
    /\ BagCardinality(loaded) = 2

\* C4: a missing required attribute, a font part that is not found, an
\* obfuscation key of fewer than 32 hex digits and a font the parser rejects
\* each skip the element: nothing is inserted into the font cache, no
\* fill-text or clip call reaches the device, the call returns, and with a
\* malformed key the font parser is not run.
C4_ErrorsSkipElement ==
    (/\ last # NoCall
     /\ \/ ~(Required \subseteq last.elem.atts)
        \/ last.res.status = "no-part"
        \/ last.res.status = "parse-error"
        \/ last.res.warned)
    => /\ ~last.res.inserted
       /\ last.drawing.filltexts = 0
       /\ last.drawing.clips = 0
       /\ last.returned
       /\ last.res.warned => ~last.res.parsed

\* whether name ends in ".odttf", letters of either case
C8HasExtension(name) ==
    /\ Len(name) >= 6
    /\ \A j \in 1..6 :
          LET c == name[Len(name) - 6 + j]
          IN  (IF c \in 65..90 THEN c + 32 ELSE c) = ExtLower[j]

\* C8: a font part that is loaded is deobfuscated exactly once when its
\* name ends in ".odttf" in any mix of cases, and not at all otherwise.
C8_DeobfuscatedOnceIffExtension ==
    (last # NoCall /\ last.res.fetched) =>
        last.res.deobf = (IF C8HasExtension(last.res.name) THEN 1 ELSE 0)

\* the priority list of the encodings
C9Priority ==
    <<<<3, 10>>, <<3, 1>>, <<3, 5>>, <<3, 4>>, <<3, 3>>, <<3, 2>>, <<3, 0>>, <<1, 0>>>>

C9Present(encs) == {k \in 1..8 : \E i \in 1..Len(encs) : encs[i] = C9Priority[k]}

C9Best(encs) == C9Priority[CHOOSE k \in C9Present(encs) : \A m \in C9Present(encs) : k <= m]

\* C9: the subtable selected for a loaded font is one of the pair that
\* comes first in the priority list among the pairs the font holds, in
\* whatever order the font lists them; when it holds no listed pair nothing
\* is selected and the font is inserted into the cache all the same.
C9_BestEncodingSelected ==
    (last # NoCall /\ last.res.status = "loaded") =>
        IF C9Present(last.res.font.encs) # {}
        THEN /\ last.res.font.selected \in 0..(Len(last.res.font.encs) - 1)
             /\ last.res.font.encs[last.res.font.selected + 1] = C9Best(last.res.font.encs)
        ELSE /\ last.res.font.selected = -1
             /\ last.res.inserted

C9_Witness ==
    /\ last # NoCall
    /\ last.res.status = "loaded"
    /\ last.res.font.encs = <<<<1, 0>>, <<3, 1>>>>
    /\ last.res.font.selected = 1

\* C10: deobfuscation reads and writes part->data only at indices below
\* part->size, whatever the size of the part.
C10_AccessInsidePart ==
    (last # NoCall /\ last.res.fetched) => \A i \in last.res.accessed : i < last.res.size

====
